---- MODULE Spec2Model ----
(***************************************************************************)
(* The two Groq-backed demos of the repository:                            *)
(*   - autogen_simple_demo.py: ResearchPaperWorkflow, a sequential         *)
(*     pipeline over config.WORKFLOW_PHASES that keeps the phase outputs   *)
(*     in the insertion-ordered dict self.outputs and writes them to       *)
(*     autogen_ex4.txt;                                                    *)
(*   - crewai_demo.py: main(), which hands four tasks to a CrewAI crew and *)
(*     writes the result to crewai_demo_ex4.txt.                           *)
(*                                                                         *)
(* A Python str is modelled as a sequence of characters.  Phase names,     *)
(* completion texts and every separator the code inserts are spelled out   *)
(* character by character; a fixed prose literal of the source that the    *)
(* code only copies is one element of the sequence (its en dashes are      *)
(* written as hyphens).                                                    *)
(***************************************************************************)
EXTENDS Integers, Sequences, FiniteSets, TLC

\* ---------------------------------------------------------------------
\* Bounds of the model
\* ---------------------------------------------------------------------
\* longest phase list that replaces WORKFLOW_PHASES in an experiment
MaxPhases == 2
\* how often run() is invoked on one ResearchPaperWorkflow
MaxRuns == 2
\* most requests crew.kickoff() makes before it returns or raises
MaxCrewRequests == 2

\* ---------------------------------------------------------------------
\* Strings
\* ---------------------------------------------------------------------
NL == "\n"

LowerLetters ==
  <<"a","b","c","d","e","f","g","h","i","j","k","l","m",
    "n","o","p","q","r","s","t","u","v","w","x","y","z">>

UpperLetters ==
  <<"A","B","C","D","E","F","G","H","I","J","K","L","M",
    "N","O","P","Q","R","S","T","U","V","W","X","Y","Z">>

\* str.upper() on one character: a lower-case letter maps to its capital,
\* everything else is unchanged
UpperChar(c) ==
  IF \E k \in 1..Len(LowerLetters) : LowerLetters[k] = c
  THEN UpperLetters[CHOOSE k \in 1..Len(LowerLetters) : LowerLetters[k] = c]
  ELSE c

\* str.upper()
Upper(s) == [k \in 1..Len(s) |-> UpperChar(s[k])]

\* "c" * n
Repeat(c, n) == [k \in 1..n |-> c]

RECURSIVE Join(_, _)
\* sep.join(chunks)
Join(sep, chunks) ==
  IF chunks = <<>> THEN <<>>
  ELSE IF Len(chunks) = 1 THEN chunks[1]
  ELSE chunks[1] \o sep \o Join(sep, Tail(chunks))

\* ---------------------------------------------------------------------
\* config.py
\* ---------------------------------------------------------------------
\* os.getenv("GROQ_API_KEY") when the variable is not in the environment
NoKey == "None"

\* the values GROQ_API_KEY can have: unset, empty, set
ApiKeys == {NoKey, "", "gsk_key"}

GROQ_MODEL == <<"llama-3.1-8b-instant">>

AGENT_TEMPERATURE_DEFAULT == "0.7"

AGENT_MAX_TOKENS == 2000

LITERATURE_AGENT ==
  [name |-> "LiteratureReviewer",
   role |-> <<"Literature Review Specialist">>,
   temperature |-> AGENT_TEMPERATURE_DEFAULT,
   instructions |-> <<"You conduct a concise but insightful literature review. You summarize key themes, representative papers, and open questions, highlighting where the field currently stands.">>]

GAP_AGENT ==
  [name |-> "GapAnalyst",
   role |-> <<"Research Gap Analyst">>,
   temperature |-> AGENT_TEMPERATURE_DEFAULT,
   instructions |-> <<"You read the literature summary and identify gaps, tensions, and promising research directions. You propose 2-3 concrete research questions or hypotheses that a new paper could address.">>]

OUTLINE_AGENT ==
  [name |-> "OutlineDesigner",
   role |-> <<"Research Paper Outline Designer">>,
   temperature |-> AGENT_TEMPERATURE_DEFAULT,
   instructions |-> <<"You turn a research idea into a well-structured paper outline. You define sections (e.g., Introduction, Related Work, Method, Experiments, Discussion, Conclusion) and list bullet points for what each section should cover.">>]

REVIEW_AGENT ==
  [name |-> "OutlineReviewer",
   role |-> <<"Critical Research Mentor">>,
   temperature |-> AGENT_TEMPERATURE_DEFAULT,
   instructions |-> <<"You critically review the proposed outline, checking for coherence, feasibility, and novelty. You suggest improvements and highlight any missing sections or clarifications needed.">>]

\* the four phase identifiers run_phase knows
N_literature == <<"l","i","t","e","r","a","t","u","r","e">>
N_gaps == <<"g","a","p","s">>
N_outline == <<"o","u","t","l","i","n","e">>
N_review == <<"r","e","v","i","e","w">>

\* dataclass WorkflowPhase
WorkflowPhase(name, description, agent_config) ==
  [name |-> name, description |-> description, agent_config |-> agent_config]

WORKFLOW_PHASES ==
  << WorkflowPhase(N_literature, "Literature review on the topic", LITERATURE_AGENT),
     WorkflowPhase(N_gaps, "Analyze research gaps and propose questions", GAP_AGENT),
     WorkflowPhase(N_outline, "Design structured paper outline", OUTLINE_AGENT),
     WorkflowPhase(N_review, "Critically review and refine the outline", REVIEW_AGENT) >>

\* phase lists that replace WORKFLOW_PHASES in an experiment use these
\* identifiers: two the code does not know that differ only in case, a third
\* unknown one, and a known one out of its usual position
TestNames == { <<"a">>, <<"A">>, <<"B">>, N_gaps }

\* an agent_config with neither "instructions" nor "temperature"
TEST_AGENT == [name |-> "Tester", role |-> <<"Tester">>]

\* the phase lists with unique names, of at most MaxPhases phases
TestPhaseLists ==
  { [k \in 1..Len(names) |-> WorkflowPhase(names[k], "test phase", TEST_AGENT)] :
      names \in { q \in UNION { [1..n -> TestNames] : n \in 0..MaxPhases } :
                    \A j, k \in 1..Len(q) : j # k => q[j] # q[k] } }

PhaseLists == {WORKFLOW_PHASES} \cup TestPhaseLists

\* the completion texts the endpoint returns
Texts == { <<"X">>, <<"y", NL, "z">> }

\* ---------------------------------------------------------------------
\* autogen_simple_demo.py
\* ---------------------------------------------------------------------
TOPIC == <<"How multi-agent AI systems can support human decision-making">>

\* mutant: the credential check misses the empty string
KeyMissing_onlyNone(key) == key = NoKey

\* not GROQ_API_KEY
KeyMissing(key) == key = NoKey \/ key = ""

\* agent_cfg.get(field, default)
CfgGet(agent_cfg, field, default) ==
  IF field \in DOMAIN agent_cfg THEN agent_cfg[field] ELSE default

\* run_phase: system_prompt
SystemPrompt(agent_cfg) ==
  <<"You are a ">> \o agent_cfg.role \o <<".", NL, NL>>
    \o CfgGet(agent_cfg, "instructions", <<>>) \o <<NL, NL>>
    \o <<"The paper topic is: '">> \o TOPIC \o <<"'.">>

\* f"[{prev_name.upper()} OUTPUT]\n{content}\n"
ContextChunk(prev_name, content) ==
  <<"[">> \o Upper(prev_name) \o <<" ", "O", "U", "T", "P", "U", "T", "]", NL>>
    \o content \o <<NL>>

NoPriorContext == <<"No prior context yet.">>

\* mutant: the header names the phase as stored, not upper-cased
RenderContext_noUpper(outs) ==
  LET context_chunks ==
        [k \in 1..Len(outs) |->
           <<"[">> \o outs[k].key \o <<" ", "O", "U", "T", "P", "U", "T", "]", NL>>
             \o outs[k].value \o <<NL>>]
  IN  IF context_chunks # <<>> THEN Join(<<NL>>, context_chunks) ELSE NoPriorContext

\* run_phase: context_text, rendered from self.outputs.items()
RenderContext(outs) ==
  LET context_chunks ==
        [k \in 1..Len(outs) |-> ContextChunk(outs[k].key, outs[k].value)]
  IN  IF context_chunks # <<>> THEN Join(<<NL>>, context_chunks) ELSE NoPriorContext

MSG_literature ==
  <<"Write a concise literature review for this topic. Mention 3-5 key themes or directions and typical methods used.">>
MSG_gaps ==
  <<"Based on the literature review, identify gaps or open problems. Propose 2-3 concrete research questions or hypotheses that a new paper could address.">>
MSG_outline ==
  <<"Design a detailed outline for a full research paper on this topic, grounded in the research questions above. Use standard sections (Introduction, Related Work, Method, Experiments, Results/Discussion, Conclusion) with bullet points under each.">>
MSG_review ==
  <<"Critically review the proposed outline. Point out strengths, weaknesses, and any missing parts. Then provide an improved, final outline.">>
MSG_fallback ==
  <<"Summarize the context above in a helpful way.">>

\* mutant: the else branch is missing, an unknown identifier gets the
\* instruction of the last elif
UserMessage_noElse(phase_name) ==
  IF phase_name = N_literature THEN MSG_literature
  ELSE IF phase_name = N_gaps THEN MSG_gaps
  ELSE IF phase_name = N_outline THEN MSG_outline
  ELSE MSG_review

\* run_phase: the if/elif chain that selects user_message
UserMessage(phase_name) ==
  IF phase_name = N_literature THEN MSG_literature
  ELSE IF phase_name = N_gaps THEN MSG_gaps
  ELSE IF phase_name = N_outline THEN MSG_outline
  ELSE IF phase_name = N_review THEN MSG_review
  ELSE MSG_fallback

\* run_phase: the arguments of self.client.chat.completions.create; the
\* rendered context_text is not among them
Request(model, agent_cfg, system_prompt, user_message, context_text) ==
  [model |-> model,
   temperature |-> CfgGet(agent_cfg, "temperature", "None"),
   max_tokens |-> AGENT_MAX_TOKENS,
   messages |-> << [role |-> "system", content |-> system_prompt],
                   [role |-> "user", content |-> user_message] >>]

\* mutant: the new entry is put in front of the dict
StoreOutput_front(outs, phase_name, content) ==
  IF \E k \in 1..Len(outs) : outs[k].key = phase_name
  THEN [k \in 1..Len(outs) |->
          IF outs[k].key = phase_name
          THEN [key |-> phase_name, value |-> content] ELSE outs[k]]
  ELSE <<[key |-> phase_name, value |-> content]>> \o outs

\* self.outputs[phase_name] = content on an insertion-ordered dict: a known
\* key keeps its position and gets the new value, a new key goes last
StoreOutput(outs, phase_name, content) ==
  IF \E k \in 1..Len(outs) : outs[k].key = phase_name
  THEN [k \in 1..Len(outs) |->
          IF outs[k].key = phase_name
          THEN [key |-> phase_name, value |-> content] ELSE outs[k]]
  ELSE Append(outs, [key |-> phase_name, value |-> content])

\* run: the header of autogen_ex4.txt
ReportHeader(model) ==
  <<"AutoGen Exercise 4 - Research Paper Outline", NL>>
    \o Repeat("=", 80) \o <<NL>>
    \o <<"Topic: ">> \o TOPIC \o <<NL>>
    \o <<"Model: ">> \o model \o <<NL, NL>>

\* run: one section of autogen_ex4.txt
ReportSection(phase_name, content) ==
  <<"--- PHASE: ">> \o phase_name \o <<" ---", NL>> \o content \o <<NL, NL>>

\* run: the text written to autogen_ex4.txt
ReportText(model, outs) ==
  ReportHeader(model)
    \o Join(<<>>, [k \in 1..Len(outs) |-> ReportSection(outs[k].key, outs[k].value)])

\* no file on disk
NoFile == <<"<no file>">>

VARIABLES
  program,       \* which script is executed: "autogen" or "crewai"
  api_key,       \* config.GROQ_API_KEY
  phases,        \* config.WORKFLOW_PHASES as the run sees it
  pc,            \* ResearchPaperWorkflow: "new", "raised", "ready", "running", "failed", "complete"
  i,             \* run: position of the for loop in the phase list, from 1
  runs,          \* number of invocations of run() so far
  outputs,       \* self.outputs, the insertion-ordered dict as a sequence of entries
  calls,         \* the calls the endpoint received in the present invocation of run(), with their outcome
  report,        \* contents of autogen_ex4.txt
  nwrites,       \* how often autogen_ex4.txt has been opened for writing
  crewPc,        \* crewai_demo.main: "start", "raised", "failed", "done"
  environ,       \* os.environ has the OPENAI_* variables bound by main
  crewRequests,  \* requests crew.kickoff() has made to the endpoint
  crewReport     \* crewai_demo_ex4.txt has been written

vars == << program, api_key, phases, pc, i, runs, outputs, calls, report, nwrites,
           crewPc, environ, crewRequests, crewReport >>

autogenVars == << pc, i, runs, outputs, calls, report, nwrites >>
crewVars == << crewPc, environ, crewRequests, crewReport >>

\* the state: self.outputs is a dict with unique keys
TypeOK ==
  /\ program \in {"autogen", "crewai"}
  /\ api_key \in ApiKeys
  /\ phases \in PhaseLists
  /\ pc \in {"new", "raised", "ready", "running", "failed", "complete"}
  /\ i \in 0..(Len(phases) + 1)
  /\ runs \in 0..MaxRuns
  /\ \A k \in 1..Len(outputs) :
       /\ outputs[k].value \in Texts
       /\ \A j \in 1..Len(outputs) : j # k => outputs[j].key # outputs[k].key
  /\ Len(calls) <= Len(phases)
  /\ \A k \in 1..Len(calls) :
       /\ calls[k].ok \in BOOLEAN
       /\ calls[k].ok => calls[k].content \in Texts
  /\ nwrites \in 0..runs
  /\ (report = NoFile) = (nwrites = 0)
  /\ crewPc \in {"start", "raised", "failed", "done"}
  /\ environ \in BOOLEAN
  /\ crewRequests \in 0..MaxCrewRequests
  /\ crewReport \in BOOLEAN

Init ==
  /\ program \in {"autogen", "crewai"}
  /\ api_key \in ApiKeys
  /\ phases \in PhaseLists
  /\ pc = "new"
  /\ i = 0
  /\ runs = 0
  /\ outputs = <<>>
  /\ calls = <<>>
  /\ report = NoFile
  /\ nwrites = 0
  /\ crewPc = "start"
  /\ environ = FALSE
  /\ crewRequests = 0
  /\ crewReport = FALSE

\* ResearchPaperWorkflow(): the credential is missing
ConstructRaise ==
  /\ program = "autogen"
  /\ pc = "new"
  /\ KeyMissing(api_key)
  /\ pc' = "raised"
  /\ UNCHANGED << program, api_key, phases, i, runs, outputs, calls, report, nwrites >>
  /\ UNCHANGED crewVars

\* ResearchPaperWorkflow(): client, model and the empty self.outputs are set
Construct ==
  /\ program = "autogen"
  /\ pc = "new"
  /\ ~KeyMissing(api_key)
  /\ pc' = "ready"
  /\ outputs' = <<>>
  /\ UNCHANGED << program, api_key, phases, i, runs, calls, report, nwrites >>
  /\ UNCHANGED crewVars

\* run() is invoked on the instance: the banner is printed and the for loop
\* starts at the first phase; self.outputs is left as it is
RunStart ==
  /\ program = "autogen"
  /\ pc \in {"ready", "complete", "failed"}
  /\ runs < MaxRuns
  /\ pc' = "running"
  /\ i' = 1
  /\ runs' = runs + 1
  /\ calls' = <<>>
  /\ UNCHANGED << program, api_key, phases, outputs, report, nwrites >>
  /\ UNCHANGED crewVars

\* the record of one call of the endpoint made by run_phase for phase ph
CallOf(ph, ok, content) ==
  LET system_prompt == SystemPrompt(ph.agent_config)
      context_text == RenderContext(outputs)
      user_message == UserMessage(ph.name)
  IN  [phase_name |-> ph.name,
       context_text |-> context_text,
       request |-> Request(GROQ_MODEL, ph.agent_config, system_prompt,
                           user_message, context_text),
       ok |-> ok,
       content |-> content]

\* mutant: the loop skips the phase after the one just run
LoopNext_skip(k) == k + 2

\* for phase in WORKFLOW_PHASES: the next iteration
LoopNext(k) == k + 1

\* run_phase for the phase the loop is at; the endpoint returns content
RunPhaseOK ==
  /\ program = "autogen"
  /\ pc = "running"
  /\ i <= Len(phases)
  /\ \E content \in Texts :
       /\ calls' = Append(calls, CallOf(phases[i], TRUE, content))
       /\ outputs' = StoreOutput(outputs, phases[i].name, content)
  /\ i' = LoopNext(i)
  /\ UNCHANGED << program, api_key, phases, pc, runs, report, nwrites >>
  /\ UNCHANGED crewVars

\* mutant: run catches the exception and goes on with the next phase
AfterRaise_swallow(k) == [pc |-> "running", i |-> k + 1]

\* the exception of the endpoint leaves run_phase and run: nothing catches it
AfterRaise(k) == [pc |-> "failed", i |-> k]

\* run_phase for the phase the loop is at; the endpoint raises
RunPhaseRaise ==
  /\ program = "autogen"
  /\ pc = "running"
  /\ i <= Len(phases)
  /\ calls' = Append(calls, CallOf(phases[i], FALSE, <<>>))
  /\ pc' = AfterRaise(i).pc
  /\ i' = AfterRaise(i).i
  /\ UNCHANGED << program, api_key, phases, runs, outputs, report, nwrites >>
  /\ UNCHANGED crewVars

\* run after the loop: autogen_ex4.txt is written from self.outputs
WriteReport ==
  /\ program = "autogen"
  /\ pc = "running"
  /\ i > Len(phases)
  /\ report' = ReportText(GROQ_MODEL, outputs)
  /\ nwrites' = nwrites + 1
  /\ pc' = "complete"
  /\ UNCHANGED << program, api_key, phases, i, runs, outputs, calls >>
  /\ UNCHANGED crewVars

\* ---------------------------------------------------------------------
\* crewai_demo.py
\* ---------------------------------------------------------------------
\* main(): the credential is missing
CrewMainRaise ==
  /\ program = "crewai"
  /\ crewPc = "start"
  /\ KeyMissing(api_key)
  /\ crewPc' = "raised"
  /\ UNCHANGED << program, api_key, phases, environ, crewRequests, crewReport >>
  /\ UNCHANGED autogenVars

\* main(): the crew is formed, kickoff() makes n requests and returns, the
\* summary is written
CrewMainDone ==
  /\ program = "crewai"
  /\ crewPc = "start"
  /\ ~KeyMissing(api_key)
  /\ environ' = TRUE
  /\ \E n \in 0..MaxCrewRequests : crewRequests' = crewRequests + n
  /\ crewReport' = TRUE
  /\ crewPc' = "done"
  /\ UNCHANGED << program, api_key, phases >>
  /\ UNCHANGED autogenVars

\* main(): the crew is formed, kickoff() raises after n requests
CrewMainFail ==
  /\ program = "crewai"
  /\ crewPc = "start"
  /\ ~KeyMissing(api_key)
  /\ environ' = TRUE
  /\ \E n \in 0..MaxCrewRequests : crewRequests' = crewRequests + n
  /\ crewPc' = "failed"
  /\ UNCHANGED << program, api_key, phases, crewReport >>
  /\ UNCHANGED autogenVars

Next ==
  \/ ConstructRaise
  \/ Construct
  \/ RunStart
  \/ RunPhaseOK
  \/ RunPhaseRaise
  \/ WriteReport
  \/ CrewMainRaise
  \/ CrewMainDone
  \/ CrewMainFail

Spec == Init /\ [][Next]_vars

\* ---------------------------------------------------------------------
\* Properties
\* ---------------------------------------------------------------------
InRun == pc \in {"running", "failed", "complete"}

KnownNames == {N_literature, N_gaps, N_outline, N_review}

\* the entries that phases 1..n of the present run produced, in phase order
ProducedBy(n) ==
  [j \in 1..n |-> [key |-> phases[j].name, value |-> calls[j].content]]

\* h is s with every lower-case letter replaced by its capital
IsUpperOf(h, s) ==
  /\ Len(h) = Len(s)
  /\ \A k \in 1..Len(s) :
       \/ \E j \in 1..26 : LowerLetters[j] = s[k] /\ UpperLetters[j] = h[k]
       \/ /\ \A j \in 1..26 : LowerLetters[j] # s[k]
          /\ h[k] = s[k]

\* length of the block rendered for entry e: "[", name, " OUTPUT]", newline,
\* text, newline
ChunkLen(e) == Len(e.key) + Len(e.value) + 11

\* at position q of s a line starts that is the header of entry e, the name
\* upper-cased, and the lines after it are the text of e
MatchChunkAt(e, s, q) ==
  LET n == Len(e.key)
      m == Len(e.value)
  IN  /\ q >= 1
      /\ q + ChunkLen(e) - 1 <= Len(s)
      /\ (q = 1 \/ s[q - 1] = NL)
      /\ s[q] = "["
      /\ IsUpperOf(SubSeq(s, q + 1, q + n), e.key)
      /\ SubSeq(s, q + n + 1, q + n + 8) = <<" ", "O", "U", "T", "P", "U", "T", "]">>
      /\ s[q + n + 9] = NL
      /\ SubSeq(s, q + n + 10, q + n + 9 + m) = e.value
      /\ s[q + n + 10 + m] = NL

RECURSIVE ChunksInOrder(_, _, _)
\* s has, from position p on, a block for each entry of outs, one after
\* the other in the order of outs
ChunksInOrder(outs, s, p) ==
  \/ outs = <<>>
  \/ \E q \in p..Len(s) :
       /\ MatchChunkAt(outs[1], s, q)
       /\ ChunksInOrder(Tail(outs), s, q + ChunkLen(outs[1]))

\* sub occurs in s starting at position p
OccursAt(sub, s, p) ==
  /\ p >= 1
  /\ p + Len(sub) - 1 <= Len(s)
  /\ \A k \in 1..Len(sub) : s[p + k - 1] = sub[k]

\* sub in s
Contains(sub, s) == \E p \in 1..(Len(s) + 1) : OccursAt(sub, s, p)

RECURSIVE BlocksFrom(_, _, _)
\* s from position p to its end is the blocks, one after the other
BlocksFrom(blocks, s, p) ==
  IF blocks = <<>> THEN p = Len(s) + 1
  ELSE /\ OccursAt(blocks[1], s, p)
       /\ BlocksFrom(Tail(blocks), s, p + Len(blocks[1]))

\* a function from requests to outcomes explains all calls so far
StubIsDeterministic ==
  \A j, k \in 1..Len(calls) :
    calls[j].request = calls[k].request =>
      calls[j].ok = calls[k].ok /\ calls[j].content = calls[k].content

\* C1: in every run, the context rendered for the k-th phase is the rendering
\* of the outputs of phases 1..k-1 of that run, in phase order, and of
\* nothing else; for the first phase it is the rendering of no output.
C1_ContextIsPriorOutputsOfRun ==
  \A k \in 1..Len(calls) :
    calls[k].context_text = RenderContext(ProducedBy(k - 1))

\* C2: the messages of the request of every phase after the first contain
\* the text of each output produced earlier in the run.
C2_RequestCarriesPriorOutputs ==
  \A k \in 1..Len(calls) : \A j \in 1..(k - 1) :
    \E m \in 1..Len(calls[k].request.messages) :
      Contains(calls[j].content, calls[k].request.messages[m].content)

\* C3: with GROQ_API_KEY unset or empty, the constructor and
\* crewai_demo.main raise at once: no run starts, the endpoint receives no
\* request and neither report file is written.
C3_NoRequestWithoutKey ==
  (api_key = NoKey \/ api_key = "") =>
    /\ pc \in {"new", "raised"}
    /\ crewPc \in {"start", "raised"}
    /\ runs = 0
    /\ calls = <<>>
    /\ crewRequests = 0
    /\ report = NoFile
    /\ nwrites = 0
    /\ ~crewReport

C3_Witness ==
  /\ api_key = ""
  /\ pc = "raised"

\* C4: a call of the endpoint that raises ends the run: the run is failed in
\* the next state, a failed run makes no further call and writes no report,
\* no phase is called twice in a run, and the report is written only from a
\* state in which every phase of the run has returned.
C4_FailedRunStops ==
  [][ /\ (Len(calls') > Len(calls) /\ ~calls'[Len(calls')].ok) => pc' = "failed"
      /\ pc = "failed" =>
           /\ nwrites' = nwrites /\ report' = report
           /\ calls' = calls \/ (runs' = runs + 1 /\ calls' = <<>>)
      /\ \A j, k \in 1..Len(calls') :
           j # k => calls'[j].phase_name # calls'[k].phase_name
      /\ nwrites' # nwrites =>
           /\ Len(calls) = Len(phases)
           /\ \A k \in 1..Len(calls) : calls[k].ok
    ]_vars

C4_Witness ==
  /\ pc = "failed"
  /\ 1 < i
  /\ i < Len(phases)
  /\ runs = 2

\* C5: in every run the k-th call is for the k-th phase of the list; while
\* the loop is at phase i exactly i-1 calls were made and all returned; a
\* failed run stopped at the call that raised; a complete run made exactly
\* one call per phase; and a running run can always take its next step.
C5_PhasesInDeclaredOrderOnce ==
  InRun =>
    /\ Len(calls) <= Len(phases)
    /\ \A k \in 1..Len(calls) : calls[k].phase_name = phases[k].name
    /\ \A k \in 1..(Len(calls) - 1) : calls[k].ok
    /\ pc = "running" =>
         /\ i \in 1..(Len(phases) + 1)
         /\ Len(calls) = i - 1
         /\ \A k \in 1..Len(calls) : calls[k].ok
         /\ i <= Len(phases) => ENABLED RunPhaseOK
         /\ i > Len(phases) => ENABLED WriteReport
    /\ pc = "failed" => (Len(calls) = i /\ ~calls[i].ok)
    /\ pc = "complete" =>
         /\ i = Len(phases) + 1
         /\ Len(calls) = Len(phases)
         /\ \A k \in 1..Len(calls) : calls[k].ok

C5_Witness ==
  /\ pc = "complete"
  /\ Len(phases) = 4
  /\ runs = 2

\* C6: the report of a complete run is the header followed by one section
\* per phase, in the order of the phase list, and the text of the section of
\* phase k is what the endpoint returned to the request of phase k.
C6_ReportSectionsInPhaseOrder ==
  pc = "complete" =>
    /\ Len(calls) = Len(phases)
    /\ BlocksFrom(
         <<ReportHeader(GROQ_MODEL)>> \o
           [k \in 1..Len(phases) |->
              ReportSection(phases[k].name, calls[k].content)],
         report, 1)

C6_Witness ==
  /\ pc = "complete"
  /\ Len(phases) = 4
  /\ runs = 2
  /\ StubIsDeterministic
  /\ calls[1].content # calls[2].content

\* C7: a phase whose identifier is none of the four known ones sends the
\* fallback instruction as the user message of its one request, and when
\* the endpoint returns, the text is stored under that identifier.
C7_UnknownPhaseUsesFallback ==
  /\ \A k \in 1..Len(calls) :
       calls[k].phase_name \notin KnownNames =>
         /\ Len(calls[k].request.messages) = 2
         /\ calls[k].request.messages[2] = [role |-> "user", content |-> MSG_fallback]
  /\ \A k \in 1..Len(calls) :
       (calls[k].phase_name \notin KnownNames /\ calls[k].ok) =>
         /\ Cardinality({j \in 1..Len(calls) :
                           calls[j].phase_name = calls[k].phase_name}) = 1
         /\ \E e \in 1..Len(outputs) :
              /\ outputs[e].key = calls[k].phase_name
              /\ outputs[e].value = calls[k].content
  /\ (pc = "running" /\ i <= Len(phases) /\ phases[i].name \notin KnownNames) =>
       ENABLED RunPhaseOK

C7_Witness ==
  /\ pc = "complete"
  /\ Len(phases) = 2
  /\ phases[1].name = <<"a">>
  /\ phases[2].name = N_gaps
  /\ calls[1].ok

\* C8: during a run self.outputs holds exactly one entry per phase that has
\* completed in that run, in completion order, with the text the phase
\* produced.
C8_OutputsAreCompletedPhasesOfRun ==
  InRun =>
    outputs = ProducedBy(Cardinality({k \in 1..Len(calls) : calls[k].ok}))

\* C9: the context rendered by run_phase has, for every entry of
\* self.outputs, in insertion order, a header line with the name of the
\* phase upper-cased, followed by the text stored for the phase.
C9_ContextBlocksInInsertionOrder ==
  [][ Len(calls') > Len(calls) =>
        ChunksInOrder(outputs, calls'[Len(calls')].context_text, 1) ]_vars

C9_Witness ==
  /\ Len(phases) = 2
  /\ phases[1].name = <<"A">>
  /\ phases[2].name = <<"B">>
  /\ Len(calls) = 2
  /\ calls[1].content = <<"X">>
  /\ Contains(<<NL, "[", "A", " ", "O", "U", "T", "P", "U", "T", "]", NL, "X", NL>>,
              <<NL>> \o calls[2].context_text)

\* C10: every invocation of run starts from an empty self.outputs.
C10_RunStartsFromEmptyOutputs ==
  (pc = "running" /\ i = 1) => outputs = <<>>

====
